---------------------------- MODULE Spec2Model ----------------------------
(***************************************************************************)
(* A model of bax/alg/algorithms.py: the four query algorithms LinearScan, *)
(* LinearScanRandGap, AverageOutputs and OptRightScan, their parameter     *)
(* records and the run loop run_algorithm_on_f.                            *)
(*                                                                         *)
(* Representation.  A point [x] (a one-element list) is the tuple <<x>>,   *)
(* and None is the empty tuple <<>>.  Floats are exact numbers in a fixed  *)
(* unit: grid coordinates are integer multiples of 1/Scale, so that every  *)
(* point np.linspace produces in the model is an integer number of units   *)
(* (float rounding is not modelled).  A Namespace is a record; an          *)
(* attribute the Namespace does not have is a field the record does not    *)
(* have.  f is any callable: each call returns some value of Vals or       *)
(* raises, chosen when the call is made.                                   *)
(***************************************************************************)
EXTENDS Integers, Sequences, FiniteSets, TLC

VARIABLES
    kind,            \* the class of the instance
    params,          \* self.params, shared by every run of the instance
    ctor_x_path,     \* history: the x_path the constructor was given
    nthr,            \* number of threads that call run_algorithm_on_f
    f_range,         \* the values the caller's f may return
    pc,              \* per thread: position in run_algorithm_on_f, or in the
                     \* caller's own calls of get_next_x
    exe_path,        \* per thread: the local exe_path
    x,               \* per thread: the local x
    y,               \* per thread: the local y
    exc,             \* per thread: the exception that ended the run or call
    result,          \* per thread: the returned (exe_path, output)
    calls,           \* history, per thread: the calls of f in this run
    new_x_path,      \* history, per thread: the grid this run resampled
    params_at_call   \* history, per thread: self.params when the run began

vars == <<kind, params, ctor_x_path, nthr, f_range, pc, exe_path, x, y, exc,
          result, calls, new_x_path, params_at_call>>

-----------------------------------------------------------------------------
(* Bounds of the model *)

MaxGrid == 5     \* longest configured grid
MaxVal == 1      \* f returns a value of 0..MaxVal
MaxIter == 5     \* largest configured max_iter

Vals == 0..MaxVal

-----------------------------------------------------------------------------
(* Arithmetic helpers *)

RECURSIVE Gcd(_, _)
Gcd(a, b) == IF b = 0 THEN a ELSE Gcd(b, a % b)

RECURSIVE LcmUpTo(_)
LcmUpTo(n) == IF n <= 1 THEN 1 ELSE LET l == LcmUpTo(n - 1) IN (l * n) \div Gcd(l, n)

\* np.ceil(num/den) for den > 0
Ceil(num, den) == -((-num) \div den)

RECURSIVE SeqSum(_)
SeqSum(s) == IF s = <<>> THEN 0 ELSE s[1] + SeqSum(Tail(s))

\* np.min of a non-empty sequence of numbers
NpMin(s) == CHOOSE m \in {s[i] : i \in 1..Len(s)} : \A i \in 1..Len(s) : m <= s[i]

\* np.max of a non-empty sequence of numbers
NpMax(s) == CHOOSE m \in {s[i] : i \in 1..Len(s)} : \A i \in 1..Len(s) : m >= s[i]

\* s[:-1]
ButLast(s) == SubSeq(s, 1, Len(s) - 1)

None == <<>>

\* rand_factor = 0.2, in tenths
rand_factor == 2

\* a min_gap rounded down (np.floor for np.ceil)
MinGap_floor(n_grid) == ((10 - rand_factor) * n_grid) \div 10

\* (1 - rand_factor) * n_grid, rounded up
MinGap(n_grid) == Ceil((10 - rand_factor) * n_grid, 10)

\* (1 + rand_factor) * n_grid, rounded up
MaxGap(n_grid) == Ceil((10 + rand_factor) * n_grid, 10)

\* units per 1.0 of a grid coordinate: every k - 1 of a resampled grid divides it
Scale == LcmUpTo(MaxGap(MaxGrid))

\* np.linspace(lo, hi, k): k evenly spaced numbers, lo first and (k > 1) hi last
Linspace(lo, hi, k) ==
    [i \in 1..k |-> IF k = 1 THEN lo ELSE lo + ((i - 1) * (hi - lo)) \div (k - 1)]

\* [[x] for x in xs]
WrapPoints(xs) == [i \in 1..Len(xs) |-> <<xs[i]>>]

\* the numbers of a list of points, as np.min / np.max see them
Flatten(x_path) == [i \in 1..Len(x_path) |-> x_path[i][1]]


(* No run of a configured instance reaches this path length; the run loop  *)
(* of the model stops there.                                               *)
MaxPathLen == MaxGap(MaxGrid) + MaxIter + 2

-----------------------------------------------------------------------------
(* Configurations the caller passes to the constructor and to set_params *)

Kinds == {"LinearScan", "LinearScanRandGap", "AverageOutputs", "OptRightScan"}

\* directions of a configured grid: descending, constant, ascending
GridSteps == {-1, 0, 1}

\* an evenly spaced grid of n points from 0 in direction d
Ramp(n, d) == [i \in 1..n |-> <<Scale * (i - 1) * d>>]

\* the x_path values a caller configures; the empty list is one of them
XPaths == {Ramp(n, d) : n \in 0..MaxGrid, d \in GridSteps}

\* the parameters a caller configures for the grid algorithms
GridConfigs == [x_path : XPaths]

\* the parameters a caller configures for OptRightScan; max_iter may be negative
OptConfigs == [init_x : {<<0>>, <<1>>}, x_grid_gap : {1, 2},
               conv_thresh : {0, 1}, max_iter : -1..MaxIter]

Configs(k) == IF k = "OptRightScan" THEN OptConfigs ELSE GridConfigs

-----------------------------------------------------------------------------
(* set_params and __init__ *)

\* LinearScan.set_params, inherited by LinearScanRandGap (the name is
\* 'LinearScan' for both)
LinearScan_set_params(c) == [name |-> "LinearScan", x_path |-> c.x_path]

\* AverageOutputs.set_params
AverageOutputs_set_params(c) == [name |-> "AverageOutputs", x_path |-> c.x_path]

\* OptRightScan.set_params
OptRightScan_set_params(c) ==
    [name |-> "OptRightScan", init_x |-> c.init_x, x_grid_gap |-> c.x_grid_gap,
     conv_thresh |-> c.conv_thresh, max_iter |-> c.max_iter]

\* set_params of the instance's class: a new Namespace with the class's fields
set_params(k, c) ==
    CASE k = "OptRightScan" -> OptRightScan_set_params(c)
      [] k = "AverageOutputs" -> AverageOutputs_set_params(c)
      [] OTHER -> LinearScan_set_params(c)

\* LinearScanRandGap.__init__: set_params, then x_path_orig = deepcopy(x_path)
LinearScanRandGap_init(c) ==
    LET p == LinearScan_set_params(c)
    IN  [name |-> p.name, x_path |-> p.x_path, x_path_orig |-> p.x_path]

\* __init__ of class k
Construct(k, c) ==
    IF k = "LinearScanRandGap" THEN LinearScanRandGap_init(c) ELSE set_params(k, c)

HasAttr(p, a) == a \in DOMAIN p

-----------------------------------------------------------------------------
(* The execution path *)

\* Namespace(x=[], y=[])
EmptyPath == [x |-> <<>>, y |-> <<>>]

\* exe_path.x.append(x)
ExePathAppendX(path, px) == [path EXCEPT !.x = Append(@, px)]

\* an append at the front of the outputs (insert(0, y))
ExePathAppendY_front(path, py) == [path EXCEPT !.y = <<py>> \o @]

\* exe_path.y.append(y)
ExePathAppendY(path, py) == [path EXCEPT !.y = Append(@, py)]

-----------------------------------------------------------------------------
(* get_next_x and get_output_from_exe_path.  Each yields a record: exc is   *)
(* "none" and val the value returned, or exc names the exception raised.    *)

Returns(v) == [exc |-> "none", val |-> v]
Raises(e) == [exc |-> e, val |-> None]

\* a get_next_x that stops one point early (len_path == len(x_path) - 1)
LinearScan_get_next_x_early(p, path) ==
    LET len_path == Len(path.x)
    IN  IF len_path + 1 >= Len(p.x_path) THEN Returns(None)
        ELSE Returns(p.x_path[len_path + 1])

\* LinearScan.get_next_x and AverageOutputs.get_next_x (the same code)
LinearScan_get_next_x(p, path) ==
    LET len_path == Len(path.x)
    IN  IF len_path = Len(p.x_path) THEN Returns(None)
        ELSE IF len_path < Len(p.x_path) THEN Returns(p.x_path[len_path + 1])
        ELSE Raises("IndexError")

\* a get_next_x without the cap on the number of steps
OptRightScan_get_next_x_nocap(p, path) ==
    LET len_path == Len(path.x)
        next_x1 == IF len_path = 0 THEN p.init_x
                   ELSE <<path.x[len_path][1] + p.x_grid_gap>>
        converged == /\ len_path >= 2
                     /\ path.y[Len(path.y)] > NpMin(ButLast(path.y)) + p.conv_thresh
    IN  IF converged THEN Returns(None) ELSE Returns(next_x1)

\* a get_next_x that compares with the largest earlier output (np.max for
\* np.min)
OptRightScan_get_next_x_max(p, path) ==
    LET len_path == Len(path.x)
        next_x1 == IF len_path = 0 THEN p.init_x
                   ELSE <<path.x[len_path][1] + p.x_grid_gap>>
        converged == /\ len_path >= 2
                     /\ Len(path.y) >= 2
                     /\ path.y[Len(path.y)] > NpMax(ButLast(path.y)) + p.conv_thresh
        next_x2 == IF converged THEN None ELSE next_x1
    IN  IF len_path > p.max_iter THEN Returns(None) ELSE Returns(next_x2)

\* a get_next_x whose convergence test is not strict (>= for >)
OptRightScan_get_next_x_ge(p, path) ==
    LET len_path == Len(path.x)
        next_x1 == IF len_path = 0 THEN p.init_x
                   ELSE <<path.x[len_path][1] + p.x_grid_gap>>
        converged == /\ len_path >= 2
                     /\ Len(path.y) >= 2
                     /\ path.y[Len(path.y)] >= NpMin(ButLast(path.y)) + p.conv_thresh
        next_x2 == IF converged THEN None ELSE next_x1
    IN  IF len_path > p.max_iter THEN Returns(None) ELSE Returns(next_x2)

\* OptRightScan.get_next_x
OptRightScan_get_next_x(p, path) ==
    LET len_path == Len(path.x)
        next_x1 == IF len_path = 0 THEN p.init_x
                   ELSE <<path.x[len_path][1] + p.x_grid_gap>>
        \* y[-1] and y[:-1] are defined: y is as long as x when this is called
        converged == /\ len_path >= 2
                     /\ Len(path.y) >= 2
                     /\ path.y[Len(path.y)] > NpMin(ButLast(path.y)) + p.conv_thresh
        next_x2 == IF converged THEN None ELSE next_x1
    IN  IF len_path > p.max_iter THEN Returns(None) ELSE Returns(next_x2)

get_next_x(k, p, path) ==
    IF k = "OptRightScan" THEN OptRightScan_get_next_x(p, path)
    ELSE LinearScan_get_next_x(p, path)

\* LinearScan.get_output_from_exe_path
LinearScan_get_output(path) == Returns(path.y)

\* np.mean of a list: a fraction num/den; nan (0/0) for the empty list
NpMean(ys) == [num |-> SeqSum(ys), den |-> Len(ys)]

\* an output that is the sum of the outputs (np.sum for np.mean)
AverageOutputs_get_output_sum(path) == Returns([num |-> SeqSum(path.y), den |-> 1])

\* AverageOutputs.get_output_from_exe_path
AverageOutputs_get_output(path) == Returns(NpMean(path.y))

\* an output that is the first input of the path (exe_path.x[0])
OptRightScan_get_output_first(path) ==
    IF Len(path.x) = 0 THEN Raises("IndexError") ELSE Returns(path.x[1])

\* an output that is None for the empty path, where exe_path.x[-1] raises
OptRightScan_get_output_lenient(path) ==
    IF Len(path.x) = 0 THEN Returns(None) ELSE Returns(path.x[Len(path.x)])

\* OptRightScan.get_output_from_exe_path: exe_path.x[-1]
OptRightScan_get_output(path) ==
    IF Len(path.x) = 0 THEN Raises("IndexError") ELSE Returns(path.x[Len(path.x)])

get_output_from_exe_path(k, path) ==
    CASE k = "OptRightScan" -> OptRightScan_get_output(path)
      [] k = "AverageOutputs" -> AverageOutputs_get_output(path)
      [] OTHER -> LinearScan_get_output(path)

-----------------------------------------------------------------------------
(* LinearScanRandGap.run_algorithm_on_f: the resampling of the grid *)

\* np.random.randint(low, high) draws from low..high-1
RandInt(low, high) == low..(high - 1)

\* the values new_n_grid can take for an original grid of n_grid points
NewNGrids(n_grid) == RandInt(MinGap(n_grid), MaxGap(n_grid))

\* new_x_path for the drawn new_n_grid
NewXPath(x_path, new_n_grid) ==
    LET min_x_path == NpMin(Flatten(x_path))
        max_x_path == NpMax(Flatten(x_path))
    IN  WrapPoints(Linspace(min_x_path, max_x_path, new_n_grid))

\* an assignment that overwrites the original grid as well
AssignXPath_orig(p, new) == [p EXCEPT !.x_path = new, !.x_path_orig = new]

\* an assignment that is left out: the parameters keep their grid
AssignXPath_kept(p, new) == p

\* self.params.x_path = new_x_path
AssignXPath(p, new) == [p EXCEPT !.x_path = new]

-----------------------------------------------------------------------------
(* The state machine *)

Threads == 1..nthr

Running == {"resample", "begin", "next", "loop", "append_x", "append_y"}

NoResult == [path |-> EmptyPath, output |-> None]

\* the locals of a thread that is not in run_algorithm_on_f
InitLocals(n, p) ==
    /\ pc = [t \in 1..n |-> "idle"]
    /\ exe_path = [t \in 1..n |-> EmptyPath]
    /\ x = [t \in 1..n |-> None]
    /\ y = [t \in 1..n |-> 0]
    /\ exc = [t \in 1..n |-> "none"]
    /\ result = [t \in 1..n |-> NoResult]
    /\ calls = [t \in 1..n |-> <<>>]
    /\ new_x_path = [t \in 1..n |-> <<>>]
    /\ params_at_call = [t \in 1..n |-> p]

\* the state after the constructor of class k was given c, for n threads
\* that will call an f with values in r
InitState(k, c, n, r) ==
    /\ kind = k
    /\ nthr = n
    /\ f_range = r
    /\ params = Construct(k, c)
    /\ ctor_x_path = IF k = "OptRightScan" THEN <<>> ELSE c.x_path
    /\ InitLocals(n, params)

Init == \E k \in Kinds : \E c \in Configs(k) : InitState(k, c, 1, Vals)

\* the caller reconfigures the instance between runs
SetParams ==
    /\ \A t \in Threads : pc[t] \notin Running
    /\ \E c \in Configs(kind) : params' = set_params(kind, c)
    /\ pc' = [t \in Threads |-> "idle"]
    /\ exe_path' = [t \in Threads |-> EmptyPath]
    /\ x' = [t \in Threads |-> None]
    /\ y' = [t \in Threads |-> 0]
    /\ exc' = [t \in Threads |-> "none"]
    /\ result' = [t \in Threads |-> NoResult]
    /\ calls' = [t \in Threads |-> <<>>]
    /\ new_x_path' = [t \in Threads |-> <<>>]
    /\ params_at_call' = [t \in Threads |-> params']
    /\ UNCHANGED <<kind, ctor_x_path, nthr, f_range>>

\* thread t calls run_algorithm_on_f(f)
Call(t) ==
    /\ pc[t] \notin Running
    /\ pc' = [pc EXCEPT ![t] =
                IF kind = "LinearScanRandGap" THEN "resample" ELSE "begin"]
    /\ exe_path' = [exe_path EXCEPT ![t] = EmptyPath]
    /\ x' = [x EXCEPT ![t] = None]
    /\ y' = [y EXCEPT ![t] = 0]
    /\ exc' = [exc EXCEPT ![t] = "none"]
    /\ result' = [result EXCEPT ![t] = NoResult]
    /\ calls' = [calls EXCEPT ![t] = <<>>]
    /\ new_x_path' = [new_x_path EXCEPT ![t] = <<>>]
    /\ params_at_call' = [params_at_call EXCEPT ![t] = params]
    /\ UNCHANGED <<kind, params, ctor_x_path, nthr, f_range>>

\* an exception that is swallowed: the loop body goes on with the stale y
Raise_swallowed(t, e) ==
    /\ pc' = [pc EXCEPT ![t] = "append_x"]
    /\ exc' = exc

\* the run of thread t ends with exception e
Raise(t, e) ==
    /\ pc' = [pc EXCEPT ![t] = "raised"]
    /\ exc' = [exc EXCEPT ![t] = e]

\* LinearScanRandGap.run_algorithm_on_f up to the call of super()
Resample(t) ==
    /\ pc[t] = "resample"
    /\ IF ~HasAttr(params, "x_path_orig")
       THEN /\ Raise(t, "AttributeError")
            /\ UNCHANGED <<params, new_x_path>>
       ELSE LET x_path == params.x_path_orig
                n_grid == Len(x_path)
            IN  IF NewNGrids(n_grid) = {}
                THEN /\ Raise(t, "ValueError")
                     /\ UNCHANGED <<params, new_x_path>>
                ELSE \E new_n_grid \in NewNGrids(n_grid) :
                        /\ params' = AssignXPath(params, NewXPath(x_path, new_n_grid))
                        /\ new_x_path' = [new_x_path EXCEPT ![t] =
                                             NewXPath(x_path, new_n_grid)]
                        /\ pc' = [pc EXCEPT ![t] = "begin"]
                        /\ UNCHANGED exc
    /\ UNCHANGED <<kind, ctor_x_path, nthr, f_range, exe_path, x, y, result,
                   calls, params_at_call>>

\* exe_path = Namespace(x=[], y=[])
Begin(t) ==
    /\ pc[t] = "begin"
    /\ exe_path' = [exe_path EXCEPT ![t] = EmptyPath]
    /\ pc' = [pc EXCEPT ![t] = "next"]
    /\ UNCHANGED <<kind, params, ctor_x_path, nthr, f_range, x, y, exc, result,
                   calls, new_x_path, params_at_call>>

\* x = self.get_next_x(exe_path), before the loop and at the end of its body
NextX(t) ==
    /\ pc[t] = "next"
    /\ LET r == get_next_x(kind, params, exe_path[t])
       IN  IF r.exc # "none"
           THEN Raise(t, r.exc) /\ UNCHANGED x
           ELSE /\ x' = [x EXCEPT ![t] = r.val]
                /\ pc' = [pc EXCEPT ![t] = "loop"]
                /\ UNCHANGED exc
    /\ UNCHANGED <<kind, params, ctor_x_path, nthr, f_range, exe_path, y,
                   result, calls, new_x_path, params_at_call>>

\* while x is not None: y = f(x), and f returns
CallF(t) ==
    /\ pc[t] = "loop"
    /\ x[t] # None
    /\ Len(exe_path[t].x) < MaxPathLen
    /\ \E v \in f_range :
          /\ y' = [y EXCEPT ![t] = v]
          /\ calls' = [calls EXCEPT ![t] = Append(@, [x |-> x[t], y |-> <<v>>])]
    /\ pc' = [pc EXCEPT ![t] = "append_x"]
    /\ UNCHANGED <<kind, params, ctor_x_path, nthr, f_range, exe_path, x, exc,
                   result, new_x_path, params_at_call>>

\* while x is not None: y = f(x), and f raises
FRaise(t) ==
    /\ pc[t] = "loop"
    /\ x[t] # None
    /\ Len(exe_path[t].x) < MaxPathLen
    /\ calls' = [calls EXCEPT ![t] = Append(@, [x |-> x[t], y |-> <<>>])]
    /\ Raise(t, "FunctionEvaluationError")
    /\ UNCHANGED <<kind, params, ctor_x_path, nthr, f_range, exe_path, x, y,
                   result, new_x_path, params_at_call>>

\* exe_path.x.append(x)
AppendX(t) ==
    /\ pc[t] = "append_x"
    /\ exe_path' = [exe_path EXCEPT ![t] = ExePathAppendX(@, x[t])]
    /\ pc' = [pc EXCEPT ![t] = "append_y"]
    /\ UNCHANGED <<kind, params, ctor_x_path, nthr, f_range, x, y, exc, result,
                   calls, new_x_path, params_at_call>>

\* exe_path.y.append(y)
AppendY(t) ==
    /\ pc[t] = "append_y"
    /\ exe_path' = [exe_path EXCEPT ![t] = ExePathAppendY(@, y[t])]
    /\ pc' = [pc EXCEPT ![t] = "next"]
    /\ UNCHANGED <<kind, params, ctor_x_path, nthr, f_range, x, y, exc, result,
                   calls, new_x_path, params_at_call>>

\* the loop ends: output = self.get_output_from_exe_path(exe_path); return
Output(t) ==
    /\ pc[t] = "loop"
    /\ x[t] = None
    /\ LET r == get_output_from_exe_path(kind, exe_path[t])
       IN  IF r.exc # "none"
           THEN Raise(t, r.exc) /\ UNCHANGED result
           ELSE /\ result' = [result EXCEPT ![t] =
                                 [path |-> exe_path[t], output |-> r.val]]
                /\ pc' = [pc EXCEPT ![t] = "returned"]
                /\ UNCHANGED exc
    /\ UNCHANGED <<kind, params, ctor_x_path, nthr, f_range, exe_path, x, y,
                   calls, new_x_path, params_at_call>>

Next ==
    \/ SetParams
    \/ \E t \in Threads : Call(t)
    \/ \E t \in Threads : Resample(t)
    \/ \E t \in Threads : Begin(t)
    \/ \E t \in Threads : NextX(t)
    \/ \E t \in Threads : CallF(t)
    \/ \E t \in Threads : FRaise(t)
    \/ \E t \in Threads : AppendX(t)
    \/ \E t \in Threads : AppendY(t)
    \/ \E t \in Threads : Output(t)

\* one caller, one run at a time, an instance of any class
Spec == Init /\ [][Next]_vars

-----------------------------------------------------------------------------
(* What the properties speak of *)

\* the inputs f was called on in the run of thread t, in call order
CallInputs(t) == [i \in 1..Len(calls[t]) |-> calls[t][i].x]

\* the values f returned in the run of thread t, in call order (no call raised)
CallOutputs(t) == [i \in 1..Len(calls[t]) |-> calls[t][i].y[1]]

\* s is a prefix of g
IsPrefix(s, g) == Len(s) <= Len(g) /\ \A i \in 1..Len(s) : s[i] = g[i]

\* the run of thread t has resampled its grid
HasResampled(t) ==
    /\ kind = "LinearScanRandGap"
    /\ \/ pc[t] \in {"begin", "next", "loop", "append_x", "append_y", "returned"}
       \/ pc[t] = "raised" /\ exc[t] \notin {"AttributeError", "ValueError"}

-----------------------------------------------------------------------------
(* C1: LinearScan.run_algorithm_on_f calls f on grid[0], grid[1], ... in   *)
(* grid order and on nothing else; when it returns it has made exactly     *)
(* len(grid) calls, the path's inputs are the grid and the output is the   *)
(* list of the values f returned, in call order.                           *)
C1_LinearScanQueriesGridInOrder ==
    kind = "LinearScan" =>
        \A t \in Threads :
            /\ IsPrefix(CallInputs(t), params.x_path)
            /\ pc[t] = "returned" =>
                  /\ Len(calls[t]) = Len(params.x_path)
                  /\ result[t].path.x = params.x_path
                  /\ result[t].output = CallOutputs(t)

\* a LinearScan run over a grid of three or more points has returned, f
\* having returned different values on the first two
C1_Witness ==
    /\ kind = "LinearScan"
    /\ pc[1] = "returned"
    /\ Len(params.x_path) >= 3
    /\ params.x_path[1] # params.x_path[2]
    /\ result[1].output[1] # result[1].output[2]

-----------------------------------------------------------------------------
(* C3: in every LinearScanRandGap run on an original grid of n >= 1        *)
(* points, the resampled grid has k points with ceil(0.8 n) <= k <         *)
(* ceil(1.2 n) (for an integer k: 0.8 n <= k < 1.2 n), and its minimum and *)
(* maximum are those of the original grid.                                 *)
C3_ResampledGridSizeAndBounds ==
    \A t \in Threads :
        (HasResampled(t) /\ Len(params.x_path_orig) >= 1) =>
            LET n == Len(params.x_path_orig)
                k == Len(new_x_path[t])
            IN  /\ 8 * n <= 10 * k
                /\ 10 * k < 12 * n
                /\ NpMin(Flatten(new_x_path[t])) = NpMin(Flatten(params.x_path_orig))
                /\ NpMax(Flatten(new_x_path[t])) = NpMax(Flatten(params.x_path_orig))

\* a run on a descending grid of five points drew four points and returned
C3_Witness ==
    /\ kind = "LinearScanRandGap"
    /\ pc[1] = "returned"
    /\ Len(params.x_path_orig) = 5
    /\ params.x_path_orig[1][1] > params.x_path_orig[5][1]
    /\ Len(new_x_path[1]) = 4
    /\ result[1].path.x = new_x_path[1]

-----------------------------------------------------------------------------
(* C5: no LinearScan run completes on an instance whose grid is empty:     *)
(* a run that returns has queried f at least once and its output is not    *)
(* empty (configuration with an empty grid having failed).                 *)
C5_NoRunOnEmptyGrid ==
    kind = "LinearScan" =>
        \A t \in Threads :
            pc[t] = "returned" =>
                /\ Len(params.x_path) > 0
                /\ Len(calls[t]) > 0
                /\ result[t].output # <<>>

-----------------------------------------------------------------------------
(* C6: no OptRightScan run ever starts with max_iter < 0 (configuration    *)
(* with a negative max_iter having failed).                                *)
C6_NoRunWithNegativeMaxIter ==
    kind = "OptRightScan" =>
        \A t \in Threads : pc[t] # "idle" => params.max_iter >= 0

-----------------------------------------------------------------------------
(* C7: whatever runs a LinearScanRandGap instance has made, returned or    *)
(* aborted, its x_path_orig is the grid the constructor was given.         *)
C7_OriginalGridKept ==
    (kind = "LinearScanRandGap" /\ HasAttr(params, "x_path_orig")) =>
        params.x_path_orig = ctor_x_path

\* a run was aborted by f after it had queried two points of a resampled
\* grid that is not the constructor's
C7_Witness ==
    /\ kind = "LinearScanRandGap"
    /\ pc[1] = "raised"
    /\ exc[1] = "FunctionEvaluationError"
    /\ Len(exe_path[1].x) = 2
    /\ HasAttr(params, "x_path_orig")
    /\ params.x_path # ctor_x_path
    /\ params_at_call[1].x_path # ctor_x_path

-----------------------------------------------------------------------------
(* C8: when a run has ended, self.params is the record it was when the run *)
(* began, for every class.                                                 *)
C8_ParamsUnchangedByRun ==
    \A t \in Threads :
        pc[t] \in {"returned", "raised"} => params = params_at_call[t]

-----------------------------------------------------------------------------
(* C9: AverageOutputs.run_algorithm_on_f calls f on the configured points  *)
(* in list order, once each; when it returns on a non-empty list the       *)
(* output is a number (a fraction num/den) with output * count = the sum   *)
(* of the values f returned.                                               *)
C9_AverageOutputsReturnsMean ==
    kind = "AverageOutputs" =>
        \A t \in Threads :
            /\ IsPrefix(CallInputs(t), params.x_path)
            /\ (pc[t] = "returned" /\ Len(params.x_path) >= 1) =>
                  /\ CallInputs(t) = params.x_path
                  /\ result[t].output.den > 0
                  /\ result[t].output.num * Len(params.x_path)
                        = SeqSum(CallOutputs(t)) * result[t].output.den

\* a run over three or more points returned a mean that is not a whole number
C9_Witness ==
    /\ kind = "AverageOutputs"
    /\ pc[1] = "returned"
    /\ Len(params.x_path) >= 3
    /\ result[1].output.num % result[1].output.den # 0

-----------------------------------------------------------------------------
(* The execution path of a run *)

\* whenever get_next_x is called the path has as many outputs as inputs
C10_LenEqAtGetNextX ==
    \A t \in Threads : pc[t] = "next" => Len(exe_path[t].x) = Len(exe_path[t].y)

\* what a step may do to the path of thread t: nothing (but not across an
\* append statement); make it the empty path of a new run; append the
\* queried x to the inputs; append the value f returned to the outputs.  And
\* get_next_x is reached only from the creation of the empty path or from
\* the second append.
C10_PathStep(t) ==
    LET p == exe_path[t]
        q == exe_path'[t]
        last == calls[t][Len(calls[t])]
    IN  /\ \/ /\ q = p
              /\ ~(pc[t] \in {"append_x", "append_y"} /\ pc'[t] # pc[t])
           \/ /\ q = EmptyPath
              /\ pc[t] \notin {"next", "loop", "append_x", "append_y"}
           \/ /\ pc[t] = "append_x" /\ pc'[t] = "append_y"
              /\ Len(p.x) = Len(p.y)
              /\ q.x = Append(p.x, last.x)
              /\ q.y = p.y
           \/ /\ pc[t] = "append_y" /\ pc'[t] = "next"
              /\ Len(p.x) = Len(p.y) + 1
              /\ q.x = p.x
              /\ q.y = Append(p.y, last.y[1])
        /\ (pc'[t] = "next" /\ pc[t] # "next") =>
              \/ pc[t] = "begin" /\ q = EmptyPath
              \/ pc[t] = "append_y"

(* C10: in every run of every class, the path has as many outputs as       *)
(* inputs whenever get_next_x is called; the path is empty when the run    *)
(* first calls get_next_x; after that the only changes to the path are, in *)
(* each pass of the loop, the append of the queried x at the end of the    *)
(* inputs and then of the value f returned at the end of the outputs.      *)
C10_PathAppendOnly ==
    /\ []C10_LenEqAtGetNextX
    /\ [][\A t \in Threads : C10_PathStep(t)]_vars

\* an OptRightScan run is about to call get_next_x on a path of two pairs
\* whose outputs differ
C10_Witness ==
    /\ kind = "OptRightScan"
    /\ pc[1] = "next"
    /\ Len(exe_path[1].x) = 2
    /\ exe_path[1].y[1] # exe_path[1].y[2]

-----------------------------------------------------------------------------
(* OptRightScan alone, with the progress of a started run *)

InitOpt == \E c \in OptConfigs : InitState("OptRightScan", c, 1, Vals)

\* a step of the body of run_algorithm_on_f
RunStep ==
    \/ \E t \in Threads : Begin(t)
    \/ \E t \in Threads : NextX(t)
    \/ \E t \in Threads : CallF(t)
    \/ \E t \in Threads : FRaise(t)
    \/ \E t \in Threads : AppendX(t)
    \/ \E t \in Threads : AppendY(t)
    \/ \E t \in Threads : Output(t)

NextOpt ==
    \/ SetParams
    \/ \E t \in Threads : Call(t)
    \/ RunStep

(* The interpreter keeps executing a run it has started, and f is total:   *)
(* every call of f returns or raises.                                      *)
SpecOptFair == InitOpt /\ [][NextOpt]_vars /\ WF_vars(RunStep)

\* at no path length L >= 2 does the last output exceed an earlier one by
\* more than thresh: the convergence condition never holds on ys
NeverConverges(ys, thresh) ==
    \A L \in 2..Len(ys) : \A j \in 1..(L - 1) : ys[L] <= ys[j] + thresh

-----------------------------------------------------------------------------
\* for max_iter = m >= 0 the path has at most m + 2 pairs, and a returned
\* path whose outputs never met the convergence condition has m + 1 or m + 2
C2_PathBounded ==
    (kind = "OptRightScan" /\ params.max_iter >= 0) =>
        /\ Len(exe_path[1].x) <= params.max_iter + 2
        /\ (pc[1] = "returned"
              /\ NeverConverges(result[1].path.y, params.conv_thresh)) =>
                 Len(result[1].path.x) \in
                     {params.max_iter + 1, params.max_iter + 2}

(* C2: for max_iter = m >= 0 every OptRightScan run ends; its path never   *)
(* grows beyond m + 2 pairs, and when the outputs never meet the           *)
(* convergence condition the returned path has m + 1 or m + 2 pairs.       *)
C2_OptRightScanTerminates ==
    /\ []C2_PathBounded
    /\ (kind = "OptRightScan" /\ params.max_iter >= 0 /\ pc[1] \in Running)
          ~> (pc[1] \in {"returned", "raised"})

\* a run with the largest max_iter returned at the hard cap, its outputs
\* having gone down and never up
C2_Witness ==
    /\ kind = "OptRightScan"
    /\ pc[1] = "returned"
    /\ params.max_iter = MaxIter
    /\ NeverConverges(result[1].path.y, params.conv_thresh)
    /\ result[1].path.y[1] > result[1].path.y[2]
    /\ Len(result[1].path.x) = params.max_iter + 1

-----------------------------------------------------------------------------
(* Two threads call run_algorithm_on_f of one LinearScanRandGap instance.  *)
(* A step of the model is one statement of the run (the resampling as a    *)
(* whole); the interpreter may switch threads between any two of them.     *)
(* The f of these runs returns 0 on every point.                           *)

\* the grids of the two-thread runs: the longest ones, whose resampled
\* grids differ in length
ConcConfigs == [x_path : {Ramp(MaxGrid, d) : d \in GridSteps \ {0}}]

InitConc == \E c \in ConcConfigs : InitState("LinearScanRandGap", c, 2, {0})

NextConc ==
    \/ \E t \in Threads : Call(t)
    \/ \E t \in Threads : Resample(t)
    \/ RunStep

SpecConc == InitConc /\ [][NextConc]_vars

-----------------------------------------------------------------------------
(* C4: when runs of one LinearScanRandGap instance interleave, no run      *)
(* fails with an error of the run's own making (only an exception of f or  *)
(* of the configuration ends a run early), and the inputs of the path a    *)
(* run returns are the grid that this run resampled.                       *)
C4_RunsUseOwnGrid ==
    \A t \in Threads :
        /\ pc[t] = "raised" => exc[t] # "IndexError"
        /\ pc[t] = "returned" => result[t].path.x = new_x_path[t]

-----------------------------------------------------------------------------
\* the inputs of the calls of f in the run of thread t that returned
ReturnedInputs(t) ==
    LET n == Len(calls[t])
    IN  IF n > 0 /\ calls[t][n].y = <<>> THEN ButLast(CallInputs(t))
        ELSE CallInputs(t)

(* C11: when f raises on a query the run ends there with f's exception:    *)
(* the failed call is the last call of f in the run (no retry, no later    *)
(* point), the path holds the pairs of the calls before it and nothing of  *)
(* the failed query, and no (path, output) result is returned.             *)
C11_FailureAbortsRun ==
    \A t \in Threads :
        /\ \A i \in 1..Len(calls[t]) :
              calls[t][i].y = <<>> =>
                 /\ i = Len(calls[t])
                 /\ pc[t] = "raised"
                 /\ exc[t] = "FunctionEvaluationError"
        /\ (pc[t] = "raised" /\ exc[t] = "FunctionEvaluationError") =>
              /\ Len(calls[t]) >= 1
              /\ calls[t][Len(calls[t])].y = <<>>
              /\ exe_path[t].x = ReturnedInputs(t)
              /\ Len(exe_path[t].y) = Len(exe_path[t].x)
              /\ result[t] = NoResult

\* f raised on the third point of an AverageOutputs run, after returning
\* different values on the first two
C11_Witness ==
    /\ kind = "AverageOutputs"
    /\ pc[1] = "raised"
    /\ exc[1] = "FunctionEvaluationError"
    /\ Len(calls[1]) = 3
    /\ exe_path[1].y = <<0, 1>>

-----------------------------------------------------------------------------
(* get_next_x called by the caller itself, outside a run, on a path of the *)
(* caller's making: any list of inputs with as many outputs.               *)

\* the longest path the caller passes: one longer than any grid or max_iter
DirectMaxLen == IF MaxGrid > MaxIter THEN MaxGrid + 1 ELSE MaxIter + 1

\* the paths the caller passes: inputs 0, 1, 2, ... and any outputs
DirectPaths ==
    UNION {{[x |-> [i \in 1..n |-> <<i - 1>>], y |-> ys] : ys \in [1..n -> Vals]} :
              n \in 0..DirectMaxLen}

\* the caller takes a path to pass to get_next_x
TakePath(t) ==
    /\ pc[t] = "idle"
    /\ \E path \in DirectPaths : exe_path' = [exe_path EXCEPT ![t] = path]
    /\ pc' = [pc EXCEPT ![t] = "path"]
    /\ x' = [x EXCEPT ![t] = None]
    /\ exc' = [exc EXCEPT ![t] = "none"]
    /\ UNCHANGED <<kind, params, ctor_x_path, nthr, f_range, y, result, calls,
                   new_x_path, params_at_call>>

\* a get_next_x that keeps its place in self.params: it hands out the first
\* point of the grid (the initial point) and moves the grid (the initial
\* point) on
GetNextX_popping(t) ==
    /\ pc[t] \in {"path", "called"}
    /\ IF kind = "OptRightScan"
       THEN /\ x' = [x EXCEPT ![t] = params.init_x]
            /\ params' = [params EXCEPT !.init_x = <<@[1] + params.x_grid_gap>>]
       ELSE IF params.x_path = <<>>
       THEN /\ x' = [x EXCEPT ![t] = None]
            /\ params' = params
       ELSE /\ x' = [x EXCEPT ![t] = Head(params.x_path)]
            /\ params' = [params EXCEPT !.x_path = Tail(@)]
    /\ pc' = [pc EXCEPT ![t] = IF pc[t] = "path" THEN "called" ELSE "called_twice"]
    /\ UNCHANGED <<kind, ctor_x_path, nthr, f_range, exe_path, y, exc, result,
                   calls, new_x_path, params_at_call>>

\* the caller calls self.get_next_x(exe_path), a first and a second time
GetNextX(t) ==
    /\ pc[t] \in {"path", "called"}
    /\ LET r == get_next_x(kind, params, exe_path[t])
       IN  /\ x' = [x EXCEPT ![t] = r.val]
           /\ exc' = [exc EXCEPT ![t] = r.exc]
    /\ pc' = [pc EXCEPT ![t] = IF pc[t] = "path" THEN "called" ELSE "called_twice"]
    /\ UNCHANGED <<kind, params, ctor_x_path, nthr, f_range, exe_path, y, result,
                   calls, new_x_path, params_at_call>>

NextDirect ==
    \/ \E t \in Threads : TakePath(t)
    \/ \E t \in Threads : GetNextX(t)

\* an instance of any class, and a caller that calls get_next_x on its paths
SpecDirect == Init /\ [][NextDirect]_vars

-----------------------------------------------------------------------------
\* what a call of get_next_x by thread t may do: change neither the
\* parameters nor the path, and, when it is the second call on the path,
\* return (or raise) what the first did
C12_CallStep(t) ==
    /\ (pc[t] = "path" /\ pc'[t] = "called") =>
          /\ params' = params
          /\ exe_path'[t] = exe_path[t]
    /\ (pc[t] = "called" /\ pc'[t] = "called_twice") =>
          /\ params' = params
          /\ exe_path'[t] = exe_path[t]
          /\ x'[t] = x[t]
          /\ exc'[t] = exc[t]

-----------------------------------------------------------------------------
(* OptRightScan with the parameters set_params takes by default, run on    *)
(* f(x) = (x - 10)^2.  Inputs are in tenths and outputs in hundredths, so  *)
(* that 4.0, 0.1 and 0.2 are whole numbers and f is exact.                 *)

\* init_x = [4.0], x_grid_gap = 0.1, conv_thresh = 0.2, max_iter = 100
QuadConfig == [init_x |-> <<40>>, x_grid_gap |-> 1, conv_thresh |-> 20,
               max_iter |-> 100]

\* f([x]) = (x - 10)^2
Quad(px) == (px[1] - 100) * (px[1] - 100)

\* no run on these parameters has a longer path
QuadMaxPathLen == QuadConfig.max_iter + 2

\* the values f takes on the points a run can query
QuadRange ==
    {Quad(<<QuadConfig.init_x[1] + i * QuadConfig.x_grid_gap>>) : i \in 0..QuadMaxPathLen}

InitQuad == InitState("OptRightScan", QuadConfig, 1, QuadRange)

\* while x is not None: y = f(x), for this f
CallFQuad(t) ==
    /\ pc[t] = "loop"
    /\ x[t] # None
    /\ Len(exe_path[t].x) < QuadMaxPathLen
    /\ y' = [y EXCEPT ![t] = Quad(x[t])]
    /\ calls' = [calls EXCEPT ![t] = Append(@, [x |-> x[t], y |-> <<Quad(x[t])>>])]
    /\ pc' = [pc EXCEPT ![t] = "append_x"]
    /\ UNCHANGED <<kind, params, ctor_x_path, nthr, f_range, exe_path, x, exc,
                   result, new_x_path, params_at_call>>

\* a step of the body of run_algorithm_on_f on this f
RunStepQuad ==
    \/ \E t \in Threads : Begin(t)
    \/ \E t \in Threads : NextX(t)
    \/ \E t \in Threads : CallFQuad(t)
    \/ \E t \in Threads : AppendX(t)
    \/ \E t \in Threads : AppendY(t)
    \/ \E t \in Threads : Output(t)

NextQuad ==
    \/ \E t \in Threads : Call(t)
    \/ RunStepQuad

\* run after run on the same instance; a started run keeps being executed
SpecQuad == InitQuad /\ [][NextQuad]_vars /\ WF_vars(RunStepQuad)

-----------------------------------------------------------------------------
\* no run raises, and a returned run ended by the convergence test on a path
\* of at most max_iter pairs; its output is one number x, right of 10, whose
\* predecessor x - gap is not right of 10 by more than the threshold allows
\* ((x - gap - 10)^2 <= conv_thresh); path length and output are 66 and
\* [10.5] in every run
C13_ReturnedRun ==
    /\ pc[1] # "raised"
    /\ pc[1] = "returned" =>
          LET path == result[1].path
              n == Len(path.x)
              out == result[1].output
              before == <<out[1] - params.x_grid_gap>>
          IN  /\ n >= 2
              /\ n <= params.max_iter
              /\ path.y[n] > NpMin(ButLast(path.y)) + params.conv_thresh
              /\ Len(out) = 1
              /\ out[1] > 100
              /\ before[1] <= 100 \/ Quad(before) <= params.conv_thresh
              /\ n = 66
              /\ out = <<105>>

(* C13: OptRightScan on f(x) = (x - 10)^2 with init_x = [4.0], gap 0.1,    *)
(* conv_thresh 0.2 and max_iter 100: every run returns, ended by the       *)
(* convergence test before the cap; the output is one number within one    *)
(* gap plus the threshold's overshoot of 10; path length and final x are   *)
(* the same in every run.                                                  *)
C13_QuadraticConverges ==
    /\ []C13_ReturnedRun
    /\ (pc[1] \in Running) ~> (pc[1] = "returned")

\* a run returned after it had queried x = 10, where f is 0
C13_Witness ==
    /\ params = OptRightScan_set_params(QuadConfig)
    /\ pc[1] = "returned"
    /\ \E i \in 1..Len(result[1].path.x) :
          result[1].path.x[i] = <<100>> /\ result[1].path.y[i] = 0
    /\ result[1].output = result[1].path.x[Len(result[1].path.x)]

-----------------------------------------------------------------------------
(* OptRightScan alone: runs, and get_next_x called by the caller itself *)

NextOptDirect ==
    \/ \E t \in Threads : Call(t)
    \/ RunStep
    \/ NextDirect

SpecOptDirect == InitOpt /\ [][NextOptDirect]_vars

\* the convergence condition on the first L outputs ys: the L-th exceeds the
\* least of those before it by more than thresh
ConvergedAt(ys, L, thresh) ==
    /\ L >= 2
    /\ ys[L] > NpMin(SubSeq(ys, 1, L - 1)) + thresh

\* get_next_x stops on the first L pairs of a path with outputs ys
StopsAt(p, ys, L) == ConvergedAt(ys, L, p.conv_thresh) \/ L > p.max_iter

(* C14: when OptRightScan.get_next_x has returned for a path of L pairs:   *)
(* for 2 <= L <= max_iter it returned None exactly when the last output is *)
(* strictly greater than the least earlier output plus conv_thresh; for    *)
(* L <= 1 (and L <= max_iter) it returned a point; and in a run, it        *)
(* returns None at the first L at which that condition or L > max_iter     *)
(* holds.                                                                  *)
C14_ConvergenceRule ==
    kind = "OptRightScan" =>
        \A t \in Threads :
            LET L == Len(exe_path[t].x)
                ys == exe_path[t].y
            IN  /\ (pc[t] \in {"loop", "called", "called_twice"} /\ L <= params.max_iter) =>
                      /\ exc[t] = "none"
                      /\ L >= 2 =>
                            (x[t] = None <=> ys[L] > NpMin(SubSeq(ys, 1, L - 1))
                                                       + params.conv_thresh)
                      /\ L <= 1 => x[t] # None
                /\ pc[t] = "loop" =>
                      /\ \A K \in 0..(L - 1) : ~StopsAt(params, ys, K)
                      /\ x[t] = None <=> StopsAt(params, ys, L)

\* get_next_x returned a point for a path whose last output equals the least
\* earlier output plus a positive conv_thresh, in a run
C14_Witness ==
    /\ kind = "OptRightScan"
    /\ pc[1] = "loop"
    /\ x[1] # None
    /\ params.conv_thresh > 0
    /\ Len(exe_path[1].x) >= 2
    /\ Len(exe_path[1].x) <= params.max_iter
    /\ exe_path[1].y[Len(exe_path[1].y)]
          = NpMin(ButLast(exe_path[1].y)) + params.conv_thresh

-----------------------------------------------------------------------------
(* C15: in every OptRightScan run the i-th call of f (i = 0, 1, ...) is on *)
(* [init_x + i * x_grid_gap], so the first is on init_x and each later one *)
(* on the previous input plus the gap; a returned path holds these inputs  *)
(* and the output is its last input, whether the convergence test or the   *)
(* cap ended the run.                                                      *)
C15_ScanRightFromInit ==
    kind = "OptRightScan" =>
        \A t \in Threads :
            /\ \A i \in 1..Len(calls[t]) :
                  calls[t][i].x = <<params.init_x[1] + (i - 1) * params.x_grid_gap>>
            /\ \A i \in 2..Len(calls[t]) :
                  /\ calls[t][i].x[1] = calls[t][i - 1].x[1] + params.x_grid_gap
                  /\ calls[t][i].x[1] > calls[t][i - 1].x[1]
            /\ pc[t] = "returned" =>
                  LET n == Len(result[t].path.x)
                  IN  /\ n >= 1
                      /\ result[t].path.x = CallInputs(t)
                      /\ result[t].output = result[t].path.x[n]
                      /\ result[t].output =
                            <<params.init_x[1] + (n - 1) * params.x_grid_gap>>

\* a run from [1] with gap 2 was ended by the convergence test on a path of
\* three pairs, below the cap, and returned [5]
C15_Witness ==
    /\ kind = "OptRightScan"
    /\ pc[1] = "returned"
    /\ params.init_x = <<1>>
    /\ params.x_grid_gap = 2
    /\ Len(result[1].path.x) = 3
    /\ params.max_iter >= 3
    /\ result[1].output = <<5>>

-----------------------------------------------------------------------------
\* the parameters of a LinearScan configured with the grid that the run of
\* thread t resampled
ResampledLinearScan(t) == LinearScan_set_params([x_path |-> new_x_path[t]])

(* C16: a run of LinearScanRandGap by a single caller goes as the run of a *)
(* LinearScan configured with the grid resampled for this run: every value *)
(* get_next_x returns is the one that LinearScan returns for the path, f   *)
(* is called on the resampled points in order, once each, and the         *)
(* returned path's inputs are the resampled grid and the output the values *)
(* f returned.                                                             *)
C16_RandGapRunsAsLinearScan ==
    kind = "LinearScanRandGap" =>
        \A t \in Threads :
            HasResampled(t) =>
                /\ IsPrefix(CallInputs(t), new_x_path[t])
                /\ pc[t] = "loop" =>
                      Returns(x[t]) =
                          LinearScan_get_next_x(ResampledLinearScan(t), exe_path[t])
                /\ pc[t] = "raised" => exc[t] = "FunctionEvaluationError"
                /\ pc[t] = "returned" =>
                      /\ CallInputs(t) = new_x_path[t]
                      /\ result[t].path.x = new_x_path[t]
                      /\ Returns(result[t].output) = LinearScan_get_output(result[t].path)
                      /\ result[t].output = CallOutputs(t)

\* a run on a descending grid of five points resampled five points, which
\* ascend, and returned the values of f on them, not all equal
C16_Witness ==
    /\ kind = "LinearScanRandGap"
    /\ pc[1] = "returned"
    /\ Len(ctor_x_path) = 5
    /\ HasAttr(params, "x_path_orig")
    /\ Len(new_x_path[1]) = 5
    /\ new_x_path[1] # ctor_x_path
    /\ result[1].output[1] # result[1].output[5]

-----------------------------------------------------------------------------
(* C17: an OptRightScan run that returns has called f, first on init_x:    *)
(* the returned path is not empty and get_output_from_exe_path is defined  *)
(* on it (exe_path.x[-1] exists and is the output), for every max_iter     *)
(* that set_params stores, 0 and negative ones included; and for           *)
(* max_iter >= 0 get_next_x returns init_x for the empty path.             *)
C17_ReturnedPathNotEmpty ==
    kind = "OptRightScan" =>
        \A t \in Threads :
            /\ pc[t] = "returned" =>
                  /\ Len(calls[t]) >= 1
                  /\ calls[t][1].x = params.init_x
                  /\ Len(result[t].path.x) >= 1
                  /\ OptRightScan_get_output(result[t].path) = Returns(result[t].output)
            /\ (pc[t] = "loop" /\ exe_path[t] = EmptyPath /\ params.max_iter >= 0) =>
                  x[t] = params.init_x

\* a run with max_iter = 0 returned after its one query, of the initial point
C17_Witness ==
    /\ kind = "OptRightScan"
    /\ params.max_iter = 0
    /\ pc[1] = "returned"
    /\ result[1].path.x = <<params.init_x>>
    /\ result[1].output = params.init_x

-----------------------------------------------------------------------------
(* C18: a run of a LinearScanRandGap that set_params has reconfigured      *)
(* (self.params is then the record set_params made) does not fail for a    *)
(* missing attribute, and it resamples the grid that set_params stored: k  *)
(* points with ceil(0.8 n) <= k < ceil(1.2 n) for the n of that grid, and  *)
(* its minimum and maximum.                                                *)
C18_RunAfterSetParams ==
    kind = "LinearScanRandGap" =>
        \A t \in Threads :
            /\ pc[t] = "raised" => exc[t] # "AttributeError"
            /\ (HasResampled(t) /\ ~HasAttr(params_at_call[t], "x_path_orig")
                  /\ Len(params_at_call[t].x_path) >= 1) =>
                  LET grid == params_at_call[t].x_path
                      n == Len(grid)
                      k == Len(new_x_path[t])
                  IN  /\ MinGap(n) <= k
                      /\ k < MaxGap(n)
                      /\ NpMin(Flatten(new_x_path[t])) = NpMin(Flatten(grid))
                      /\ NpMax(Flatten(new_x_path[t])) = NpMax(Flatten(grid))

-----------------------------------------------------------------------------
(* C19: when get_next_x of a LinearScan or an AverageOutputs is called on  *)
(* a path it does not raise (no index out of range); for a path with at    *)
(* least as many inputs as the grid has points it returns None; and when   *)
(* it returns a point, len(exe_path.x) is an index of the grid and the     *)
(* point is the grid's point at that index.                                *)
C19_StopsAtOrPastGridEnd ==
    kind \in {"LinearScan", "AverageOutputs"} =>
        \A t \in Threads :
            pc[t] \in {"called", "called_twice"} =>
                LET L == Len(exe_path[t].x)
                IN  /\ exc[t] = "none"
                    /\ L >= Len(params.x_path) => x[t] = None
                    /\ x[t] # None =>
                          /\ L < Len(params.x_path)
                          /\ x[t] = params.x_path[L + 1]

=============================================================================
